---- MODULE Spec2Model ----
(***************************************************************************)
(* Model of src/utils.ts of squid-cli: pollDeployPipelines, the loop       *)
(* doUntil that drives it, and the text helpers they use.                  *)
(*                                                                         *)
(* Text is a sequence of tokens (strings); a template literal is the       *)
(* concatenation of its pieces.  Every effect on a collaborator            *)
(* (getDeployPipeline, CliUx.ux.action, command, streamSquidLogs,          *)
(* setTimeout) is appended to the trace `events` in program order.         *)
(***************************************************************************)
EXTENDS Integers, Sequences, FiniteSets, TLC

\* ---------------------------------------------------------------- bounds
MaxTicks == 3          \* polls issued in one invocation
MaxLogs == 1           \* log lines carried by one snapshot
MaxStream == 1         \* lines delivered by the log streamer

\* ---------------------------------------------------------------- inputs
SquidNames == {"my-squid"}
VersionNames == {"v1"}
OrgCodes == {"org"}
DeploymentUrls == {"https://my-squid.example"}
PipelineIds == {"deploy-1"}
LogLines == {"", "l1", "l2"}
Comments == {<<>>, <<"">>, <<"note">>}      \* absent, empty, present
StreamLines == {"s1", "s2"}

\* DeployPipelineStatusEnum members named by the switch, and one other value
StageStatuses == {"CREATED", "IMAGE_BUILDING", "IMAGE_PUSHING", "DEPLOYING"}
RecognizedStatuses == StageStatuses \cup {"OK"}
OtherStatuses == {"SOMETHING_ELSE"}
Statuses == RecognizedStatuses \cup OtherStatuses

SeqsUpTo(S, n) == UNION {[1..k -> S] : k \in 0..n}

Snapshots ==
  [id : PipelineIds, status : Statuses, isErrorOccurred : BOOLEAN,
   logs : SeqsUpTo(LogLines, MaxLogs), comment : Comments]

\* what getDeployPipeline resolves to: <<>> (no pipeline) or <<snapshot>>
PollResults == {<<>>} \cup {<<s>> : s \in Snapshots}

VARIABLES
  pc,            \* where the invocation of pollDeployPipelines stands
  args,          \* the arguments of the invocation
  lastStatus,    \* the closure variable lastStatus
  pipeline,      \* the const pipeline of the running callback; kept after the
                 \* tick that ended the loop as the record of what it processed
  polls,         \* history: status and error flag of every result processed
  delivered,     \* history: lines the streamer passed to onLog
  events,        \* trace of the effects, in program order
  call,          \* the call of one of the other exported functions, with its input
  outcome        \* <<>> until that call ended, then <<what it returned or threw>>

pollVars == <<pc, args, lastStatus, pipeline, polls, delivered, events>>

vars == <<pc, args, lastStatus, pipeline, polls, delivered, events, call, outcome>>

Ev(op, arg) == [op |-> op, arg |-> arg]

\* ---------------------------------------------------------------- text
dim(t) == <<"<dim>">> \o t \o <<"</dim>">>

RECURSIVE join(_, _)
join(arr, sep) ==
  IF arr = <<>> THEN <<>>
  ELSE IF Len(arr) = 1 THEN (IF arr[1] = <<>> THEN <<"">> ELSE arr[1])
  ELSE (IF arr[1] = <<>> THEN <<"">> ELSE arr[1]) \o <<sep>> \o join(Tail(arr), sep)

\* faulty variant: the filter drops only absent entries, not empty strings
truthy_keepsEmpty(v) == v # <<>>

truthy(v) == v # <<>> /\ v[1] # ""

\* faulty variant: the test of errorMessage inverted, so the trace is dropped
buildPipelineErrorMessage_dropsTrace(text, errorMessage) ==
  text \o <<" ">> \o (IF errorMessage = <<>> THEN <<": ">> \o errorMessage ELSE <<>>)

buildPipelineErrorMessage(text, errorMessage) ==
  text \o <<" ">> \o (IF errorMessage # <<>> THEN <<": ">> \o errorMessage ELSE <<>>)

traceDebug(a, p) ==
  <<"------", "Please report to t.me/HydraDevs">>
    \o dim(<<"Squid:">>) \o <<a.squidName>>
    \o dim(<<"Version:">>) \o <<a.versionName>>
    \o dim(<<"Deploy:">>) \o <<IF p = <<>> THEN "undefined" ELSE p[1].id>>

\* ---------------------------------------------------------------- the tick
\* faulty variant: the text of the IMAGE_BUILDING case copied from the case above it
spinnerText_copied(status) ==
  CASE status = "CREATED" -> "Preparing your squid"
    [] status = "IMAGE_BUILDING" -> "Preparing your squid"
    [] status = "IMAGE_PUSHING" -> "Publishing your squid"
    [] status = "DEPLOYING" -> "Deploying your squid"

\* the text of CliUx.ux.action.start in each case of the switch
spinnerText(status) ==
  CASE status = "CREATED" -> "Preparing your squid"
    [] status = "IMAGE_BUILDING" -> "Building your squid"
    [] status = "IMAGE_PUSHING" -> "Publishing your squid"
    [] status = "DEPLOYING" -> "Deploying your squid"

\* faulty variant: the message of the IMAGE_PUSHING case copied from the case above it
errorStage_copied(status) ==
  CASE status = "CREATED" -> "building"
    [] status = "IMAGE_BUILDING" -> "building"
    [] status = "IMAGE_PUSHING" -> "building"
    [] status = "DEPLOYING" -> "deploying"

\* the stage named by the message of command.error in each case of the switch
errorStage(status) ==
  CASE status = "CREATED" -> "building"
    [] status = "IMAGE_BUILDING" -> "building"
    [] status = "IMAGE_PUSHING" -> "publishing"
    [] status = "DEPLOYING" -> "deploying"

UnexpectedErrorText ==
  <<"An unexpected error occurred.",
    "Please report to Discord https://discord.gg/KRvRcBdhEE or SquidDevs https://t.me/HydraDevs">>

\* faulty variant: the dump is not gated by verbose
printDebug_ungated(p, verbose, isLogPrinted) ==
  IF ~isLogPrinted
  THEN <<Ev("log",
            dim(join(SelectSeq([i \in 1..Len(p.logs) |-> <<p.logs[i]>>] \o <<p.comment>>,
                               truthy), "\n")))>>
  ELSE <<>>

\* printDebug(): the log lines and the comment, once per tick, when verbose
printDebug(p, verbose, isLogPrinted) ==
  IF verbose /\ ~isLogPrinted
  THEN <<Ev("log",
            dim(join(SelectSeq([i \in 1..Len(p.logs) |-> <<p.logs[i]>>] \o <<p.comment>>,
                               truthy), "\n")))>>
  ELSE <<>>

\* faulty variant: lastStatus is not assigned
transition_noAssign(p, last) ==
  IF p.status # last
  THEN [lastStatus |-> last, evs |-> <<Ev("stop", <<"done">>)>>]
  ELSE [lastStatus |-> last, evs |-> <<>>]

\* if (pipeline.status !== lastStatus) { lastStatus = ...; action.stop() }
transition(p, last) ==
  IF p.status # last
  THEN [lastStatus |-> p.status, evs |-> <<Ev("stop", <<"done">>)>>]
  ELSE [lastStatus |-> last, evs |-> <<>>]

\* faulty variant: a missing pipeline keeps the loop polling
caseNotFound_keepsPolling == [evs |-> <<>>, ret |-> "false"]

\* if (!pipeline) return true
caseNotFound == [evs |-> <<>>, ret |-> "true"]

\* faulty variant: command.error does not abort, and the case goes on to `return false`
caseStage_errorFallsThrough(a, p, td) ==
  IF p.isErrorOccurred
  THEN [evs |-> <<Ev("start", <<spinnerText(p.status)>>)>>
                  \o printDebug(p, a.verbose, FALSE)
                  \o <<Ev("error",
                         buildPipelineErrorMessage(
                           <<"An error occurred while", errorStage(p.status), "the squid">>,
                           td))>>,
        ret |-> "false"]
  ELSE [evs |-> <<Ev("start", <<spinnerText(p.status)>>)>>, ret |-> "false"]

\* the cases CREATED, IMAGE_BUILDING, IMAGE_PUSHING and DEPLOYING of the
\* switch; command.error aborts, so the `return true` after it is never run
caseStage(a, p, td) ==
  IF p.isErrorOccurred
  THEN [evs |-> <<Ev("start", <<spinnerText(p.status)>>)>>
                  \o printDebug(p, a.verbose, FALSE)
                  \o <<Ev("error",
                         buildPipelineErrorMessage(
                           <<"An error occurred while", errorStage(p.status), "the squid">>,
                           td))>>,
        ret |-> "throw"]
  ELSE [evs |-> <<Ev("start", <<spinnerText(p.status)>>)>>, ret |-> "false"]

\* faulty variant: the promise of streamSquidLogs is not awaited
caseOK_noAwait(a, p) ==
  [evs |-> printDebug(p, a.verbose, FALSE)
             \o <<Ev("log", <<"Squid is running up. Your squid will be shortly available at",
                              a.deploymentUrl>>),
                  Ev("start", <<"Streaming logs from the squid">>),
                  Ev("stream", <<a.orgCode, a.squidName, a.versionName>>)>>,
   ret |-> "true"]

\* faulty variant: case OK tests the error flag as the stage cases do
caseOK_testsFlag(a, p) ==
  IF p.isErrorOccurred
  THEN [evs |-> printDebug(p, a.verbose, FALSE) \o <<Ev("error", UnexpectedErrorText)>>,
        ret |-> "throw"]
  ELSE [evs |-> printDebug(p, a.verbose, FALSE)
                  \o <<Ev("log", <<"Squid is running up. Your squid will be shortly available at",
                                   a.deploymentUrl>>),
                       Ev("start", <<"Streaming logs from the squid">>),
                       Ev("stream", <<a.orgCode, a.squidName, a.versionName>>)>>,
        ret |-> "await"]

\* case OK, up to the await of streamSquidLogs
caseOK(a, p) ==
  [evs |-> printDebug(p, a.verbose, FALSE)
             \o <<Ev("log", <<"Squid is running up. Your squid will be shortly available at",
                              a.deploymentUrl>>),
                  Ev("start", <<"Streaming logs from the squid">>),
                  Ev("stream", <<a.orgCode, a.squidName, a.versionName>>)>>,
   ret |-> "await"]

\* faulty variant: the default case announces the status before it fails
caseDefault_announces(a, p) ==
  [evs |-> <<Ev("start", <<p.status>>)>> \o printDebug(p, a.verbose, FALSE)
             \o <<Ev("error", UnexpectedErrorText)>>,
   ret |-> "throw"]

\* the default case
caseDefault(a, p) ==
  [evs |-> printDebug(p, a.verbose, FALSE) \o <<Ev("error", UnexpectedErrorText)>>,
   ret |-> "throw"]

\* One run of the callback passed to doUntil, from the resolution of
\* getDeployPipeline (r) to its return, its throw or its await of the
\* streamer.  ret: "true", "false", "throw" (command.error aborts) or
\* "await" (suspended in streamSquidLogs, returns true when it resolves).
fn(a, last, r) ==
  IF r = <<>>
  THEN [lastStatus |-> last, evs |-> caseNotFound.evs, ret |-> caseNotFound.ret]
  ELSE
    LET p == r[1]
        td == traceDebug(a, r)
        tr == transition(p, last)
        c == IF p.status \in StageStatuses THEN caseStage(a, p, td)
             ELSE IF p.status = "OK" THEN caseOK(a, p)
             ELSE caseDefault(a, p)
    IN [lastStatus |-> tr.lastStatus, evs |-> tr.evs \o c.evs, ret |-> c.ret]

\* faulty variant: the loop sleeps before it tests `done`
doUntil_sleepsFirst(ret) ==
  CASE ret = "true" -> [pc |-> "returned", evs |-> <<Ev("sleep", <<"3000">>)>>]
    [] ret = "false" -> [pc |-> "sleeping", evs |-> <<Ev("sleep", <<"3000">>)>>]
    [] ret = "throw" -> [pc |-> "thrown", evs |-> <<>>]
    [] ret = "await" -> [pc |-> "streaming", evs |-> <<>>]

\* faulty variant: the test of `done` inverted
doUntil_inverted(ret) ==
  CASE ret = "true" -> [pc |-> "sleeping", evs |-> <<Ev("sleep", <<"3000">>)>>]
    [] ret = "false" -> [pc |-> "returned", evs |-> <<>>]
    [] ret = "throw" -> [pc |-> "thrown", evs |-> <<>>]
    [] ret = "await" -> [pc |-> "streaming", evs |-> <<>>]

\* doUntil: what the loop does with the outcome of `await fn()`
doUntil(ret) ==
  CASE ret = "true" -> [pc |-> "returned", evs |-> <<>>]
    [] ret = "false" -> [pc |-> "sleeping", evs |-> <<Ev("sleep", <<"3000">>)>>]
    [] ret = "throw" -> [pc |-> "thrown", evs |-> <<>>]
    [] ret = "await" -> [pc |-> "streaming", evs |-> <<>>]

\* ---------------------------------------------------------------- actions
Invocations ==
  [orgCode : OrgCodes, squidName : SquidNames, versionName : VersionNames,
   deploymentUrl : DeploymentUrls, verbose : BOOLEAN]

PollEv == Ev("poll", <<args.squidName, args.versionName>>)

Init ==
  /\ pc = "start"
  /\ args \in Invocations
  /\ lastStatus = "undefined"
  /\ pipeline = <<>>
  /\ polls = <<>>
  /\ delivered = <<>>
  /\ events = <<>>
  /\ call = [fn |-> "pollDeployPipelines"]
  /\ outcome = <<>>

\* pollDeployPipelines is called: doUntil enters its loop and calls fn, which
\* calls getDeployPipeline
Call ==
  /\ pc = "start"
  /\ pc' = "fetching"
  /\ events' = Append(events, PollEv)
  /\ UNCHANGED <<args, lastStatus, pipeline, polls, delivered, call, outcome>>

\* getDeployPipeline resolves with r; fn runs on it, and doUntil acts on
\* what fn did
Tick(r) ==
  /\ pc = "fetching"
  /\ LET f == fn(args, lastStatus, r)
         d == doUntil(f.ret)
     IN /\ pc' = d.pc
        /\ lastStatus' = f.lastStatus
        /\ events' = events \o f.evs \o d.evs
  /\ pipeline' = IF fn(args, lastStatus, r).ret = "false" THEN <<>> ELSE r
  /\ polls' = Append(polls,
                     IF r = <<>> THEN [status |-> "NOT_FOUND", isErrorOccurred |-> FALSE]
                     ELSE [status |-> r[1].status, isErrorOccurred |-> r[1].isErrorOccurred])
  /\ UNCHANGED <<args, delivered, call, outcome>>

\* the timer of doUntil fires: the loop calls fn again
Wake ==
  /\ pc = "sleeping"
  /\ Len(polls) < MaxTicks
  /\ pc' = "fetching"
  /\ events' = Append(events, PollEv)
  /\ UNCHANGED <<args, lastStatus, pipeline, polls, delivered, call, outcome>>

\* faulty variant: onLog writes the line twice
OnLog_twice(l) ==
  /\ pc = "streaming"
  /\ Len(delivered) < MaxStream
  /\ delivered' = Append(delivered, l)
  /\ events' = events \o <<Ev("log", <<l>>), Ev("log", <<l>>)>>
  /\ UNCHANGED <<pc, args, lastStatus, pipeline, polls, call, outcome>>

\* the streamer calls onLog with a line: (l) => command.log(l)
OnLog(l) ==
  /\ pc = "streaming"
  /\ Len(delivered) < MaxStream
  /\ delivered' = Append(delivered, l)
  /\ events' = Append(events, Ev("log", <<l>>))
  /\ UNCHANGED <<pc, args, lastStatus, pipeline, polls, call, outcome>>

\* the promise of streamSquidLogs resolves: fn returns true, doUntil returns
StreamEnd ==
  /\ pc = "streaming"
  /\ pc' = doUntil("true").pc
  /\ events' = events \o doUntil("true").evs
  /\ UNCHANGED <<args, lastStatus, pipeline, polls, delivered, call, outcome>>

Next ==
  \/ Call
  \/ \E r \in PollResults : Tick(r)
  \/ Wake
  \/ \E l \in StreamLines : OnLog(l)
  \/ StreamEnd

Spec == Init /\ [][Next]_vars

\* ---------------------------------------------------------------- the loop without end
\* The same invocation with no bound on the number of polls.  To keep the
\* states finite the histories are not accumulated: polls holds the latest
\* result only, delivered the latest line only, and events stays empty.
Summary(r) ==
  IF r = <<>> THEN [status |-> "NOT_FOUND", isErrorOccurred |-> FALSE]
  ELSE [status |-> r[1].status, isErrorOccurred |-> r[1].isErrorOccurred]

LiveCall ==
  /\ pc = "start"
  /\ pc' = "fetching"
  /\ UNCHANGED <<args, lastStatus, pipeline, polls, delivered, events, call, outcome>>

LiveTick(r) ==
  /\ pc = "fetching"
  /\ pc' = doUntil(fn(args, lastStatus, r).ret).pc
  /\ lastStatus' = fn(args, lastStatus, r).lastStatus
  /\ pipeline' = IF fn(args, lastStatus, r).ret = "false" THEN <<>> ELSE r
  /\ polls' = <<Summary(r)>>
  /\ UNCHANGED <<args, delivered, events, call, outcome>>

LiveWake ==
  /\ pc = "sleeping"
  /\ pc' = "fetching"
  /\ UNCHANGED <<args, lastStatus, pipeline, polls, delivered, events, call, outcome>>

LiveOnLog(l) ==
  /\ pc = "streaming"
  /\ delivered' = <<l>>
  /\ UNCHANGED <<pc, args, lastStatus, pipeline, polls, events, call, outcome>>

LiveStreamEnd ==
  /\ pc = "streaming"
  /\ pc' = doUntil("true").pc
  /\ UNCHANGED <<args, lastStatus, pipeline, polls, delivered, events, call, outcome>>

LiveNext ==
  \/ LiveCall
  \/ \E r \in PollResults : LiveTick(r)
  \/ LiveWake
  \/ \E l \in StreamLines : LiveOnLog(l)
  \/ LiveStreamEnd

\* Fairness: the event loop runs a continuation that is ready (the call, the
\* timer of doUntil); the remote answers every poll; the log stream ends.
LiveSpec ==
  /\ Init
  /\ [][LiveNext]_vars
  /\ WF_vars(LiveCall)
  /\ WF_vars(LiveWake)
  /\ WF_vars(\E r \in PollResults : LiveTick(r))
  /\ WF_vars(LiveStreamEnd)

\* ---------------------------------------------------------------- parseNameAndVersion
\* A string is a sequence of characters.
MaxNameLen == 5        \* characters of a <name>@<version> argument

NameChars == {"a", "b", "@", "\n"}
LineTerminators == {"\n"}

Returned(v) == [kind |-> "returned", value |-> v]
Thrown(v) == [kind |-> "thrown", value |-> v]

\* the state of the poller while another function is the one called
PollerIdle ==
  /\ pc = "start"
  /\ args = [orgCode |-> "org", squidName |-> "my-squid", versionName |-> "v1",
             deploymentUrl |-> "https://my-squid.example", verbose |-> TRUE]
  /\ lastStatus = "undefined"
  /\ pipeline = <<>>
  /\ polls = <<>>
  /\ delivered = <<>>
  /\ events = <<>>

\* (s.match(/.+@.+/gi) || []).length: "." matches any character but a line
\* terminator, so a match needs an "@" with such a character on either side
matchesNameAtVersion(str) ==
  \E i \in 2..(Len(str) - 1) :
    /\ str[i] = "@"
    /\ str[i - 1] \notin LineTerminators
    /\ str[i + 1] \notin LineTerminators

\* (s.match(/@/g) || []).length
countAt(str) == Cardinality({i \in DOMAIN str : str[i] = "@"})

\* s.split(sep)
RECURSIVE split(_, _)
split(str, sep) ==
  IF \A i \in DOMAIN str : str[i] # sep THEN <<str>>
  ELSE LET i == CHOOSE j \in DOMAIN str :
                  str[j] = sep /\ \A k \in 1..(j - 1) : str[k] # sep
       IN <<SubSeq(str, 1, i - 1)>> \o split(SubSeq(str, i + 1, Len(str)), sep)

FormatErrorText == <<"Required format: <name>@<version>. Symbol @ not allowed in names">>

\* faulty variant: the count of "@" is not tested
parseNameAndVersion_noCount(nameAndVersion) ==
  IF ~matchesNameAtVersion(nameAndVersion)
  THEN Thrown(FormatErrorText)
  ELSE Returned(<<split(nameAndVersion, "@")[1], split(nameAndVersion, "@")[2]>>)

\* parseNameAndVersion: command.error aborts; value is <<squidName, versionName>>
parseNameAndVersion(nameAndVersion) ==
  IF ~matchesNameAtVersion(nameAndVersion) \/ countAt(nameAndVersion) # 1
  THEN Thrown(FormatErrorText)
  ELSE Returned(<<split(nameAndVersion, "@")[1], split(nameAndVersion, "@")[2]>>)

InitParseName ==
  /\ PollerIdle
  /\ call \in [fn : {"parseNameAndVersion"}, arg : SeqsUpTo(NameChars, MaxNameLen)]
  /\ outcome = <<>>

RunParseName ==
  /\ call.fn = "parseNameAndVersion"
  /\ outcome = <<>>
  /\ outcome' = <<parseNameAndVersion(call.arg)>>
  /\ UNCHANGED <<pollVars, call>>

SpecParseName == InitParseName /\ [][RunParseName]_vars

\* ---------------------------------------------------------------- parseEnvs
\* A text in dotenv form is a sequence of lines: <<key, value>> for a line
\* KEY=VALUE, <<text>> for a line that assigns nothing.  A mapping is a
\* function from the keys it defines to their values.
MaxFlags == 2          \* --env flags of one call

EnvTexts ==
  {<<>>, <<<<"# none">>>>, <<<<"A", "1">>>>, <<<<"A", "2">>>>, <<<<"B", "1">>>>,
   <<<<"A", "1">>, <<"B", "2">>>>, <<<<"A", "1">>, <<"A", "2">>>>,
   <<<<"# none">>, <<"B", "2">>>>}

EmptyEnv == [k \in {} |-> ""]

\* { ...x, ...y }
spread(x, y) ==
  [k \in DOMAIN x \cup DOMAIN y |-> IF k \in DOMAIN y THEN y[k] ELSE x[k]]

\* parse of dotenv: every KEY=VALUE line assigns obj[key] = value, in order
RECURSIVE parse(_)
parse(text) ==
  IF text = <<>> THEN EmptyEnv
  ELSE LET front == parse(SubSeq(text, 1, Len(text) - 1))
           line == text[Len(text)]
       IN IF Len(line) = 2 THEN spread(front, [k \in {line[1]} |-> line[2]])
          ELSE front

\* getEnv: throws when the flag assigns nothing
getEnv(e) ==
  IF DOMAIN parse(e) = {}
  THEN Thrown(<<"An error occurred during parsing variable", e>>)
  ELSE Returned(parse(e))

\* parseEnvFile; path is [exists, content]
parseEnvFile(path) == IF ~path.exists THEN EmptyEnv ELSE parse(path.content)

\* the forEach over envFlags, from envs: stops at the first flag that throws
RECURSIVE forEachFlag(_, _)
forEachFlag(envs, flags) ==
  IF flags = <<>> THEN Returned(envs)
  ELSE IF getEnv(flags[1]).kind = "thrown" THEN getEnv(flags[1])
  ELSE forEachFlag(spread(envs, getEnv(flags[1]).value), Tail(flags))

\* faulty variant: the two spreads of the return in the other order
parseEnvs_flagsWin(envFlags, envFilePath) ==
  LET envs == forEachFlag(EmptyEnv, IF envFlags = <<>> THEN <<>> ELSE envFlags[1])
      fileEnvs == IF envFilePath # <<>> THEN parseEnvFile(envFilePath[1]) ELSE EmptyEnv
  IN IF envs.kind = "thrown" THEN envs ELSE Returned(spread(fileEnvs, envs.value))

\* parseEnvs; envFlags and envFilePath are <<>> when undefined, <<x>> otherwise
parseEnvs(envFlags, envFilePath) ==
  LET envs == forEachFlag(EmptyEnv, IF envFlags = <<>> THEN <<>> ELSE envFlags[1])
      fileEnvs == IF envFilePath # <<>> THEN parseEnvFile(envFilePath[1]) ELSE EmptyEnv
  IN IF envs.kind = "thrown" THEN envs ELSE Returned(spread(envs.value, fileEnvs))

EnvFiles == [exists : {FALSE}, content : {<<>>}] \cup [exists : {TRUE}, content : EnvTexts]

InitParseEnvs ==
  /\ PollerIdle
  /\ call \in [fn : {"parseEnvs"},
               envFlags : {<<>>} \cup {<<f>> : f \in SeqsUpTo(EnvTexts, MaxFlags)},
               envFilePath : {<<>>} \cup {<<f>> : f \in EnvFiles}]
  /\ outcome = <<>>

RunParseEnvs ==
  /\ call.fn = "parseEnvs"
  /\ outcome = <<>>
  /\ outcome' = <<parseEnvs(call.envFlags, call.envFilePath)>>
  /\ UNCHANGED <<pollVars, call>>

SpecParseEnvs == InitParseEnvs /\ [][RunParseEnvs]_vars

\* ---------------------------------------------------------------- buildRemoteUrlFromGit
\* The repository and the prompt are the answers they give to the calls of
\* the function: remotes (getRemotes), select (cliSelect: <<>> when it
\* rejects, <<name>> otherwise), reachable (listRemote of the remote), dirty
\* (status.files not empty), fetchOk (fetch), refs (listRemote of the branch),
\* local and remote (latest of the two logs: <<>> or <<hash>>).
MaxRemotes == 2        \* remotes of the repository

RemoteNames == {"origin", "fork"}
FetchUrls == {<<"https://host/repo">>, <<"https://host/repo", ".git">>,
              <<"https://host/repo", ".git", "/sub">>}
Remotes == [name : RemoteNames, fetch : FetchUrls]

GitAnswers ==
  {g \in [remotes : SeqsUpTo(Remotes, MaxRemotes),
          select : {<<>>} \cup {<<n>> : n \in RemoteNames},
          reachable : BOOLEAN, dirty : BOOLEAN, fetchOk : BOOLEAN,
          refs : {"", "refs/heads/main"},
          local : {<<>>, <<"h1">>, <<"h2">>},
          remote : {<<>>, <<"h1">>}] :
     IF Len(g.remotes) < 2 THEN g.select = <<>>
     ELSE g.select = <<>> \/ \E i \in DOMAIN g.remotes : g.remotes[i].name = g.select[1]}

\* str.endsWith(suffix), suffix one token
endsWith(str, suffix) == str # <<>> /\ str[Len(str)] = suffix

\* remotes.find((remote) => remote.name === name)
find(remotes, name) ==
  remotes[CHOOSE i \in DOMAIN remotes :
            /\ remotes[i].name = name
            /\ \A j \in 1..(i - 1) : remotes[j].name # name]

\* the template of the return statement
remoteUrlText(fetch, hash) ==
  fetch \o (IF endsWith(fetch, ".git") THEN <<>> ELSE <<".git">>) \o <<"#", hash>>

\* faulty variant: the two hashes are not compared
buildRemoteUrlFromGit_noCompare(g) ==
  IF Len(g.remotes) = 0 THEN Thrown(<<"The remotes were not found">>)
  ELSE IF Len(g.remotes) > 1 /\ g.select = <<>> THEN Thrown(<<"Canceled">>)
  ELSE
    LET remoteUrl == IF Len(g.remotes) = 1 THEN g.remotes[1]
                     ELSE find(g.remotes, g.select[1])
    IN IF ~g.reachable
       THEN Thrown(<<"Remote url with name", remoteUrl.name, "not exists">>)
       ELSE IF g.dirty THEN Thrown(<<"There are unstaged or uncommitted changes">>)
       ELSE IF ~g.fetchOk THEN Thrown(<<"fetch failed">>)
       ELSE IF g.refs = ""
       THEN Thrown(<<"Remote branch", remoteUrl.name, "not exists">>)
       ELSE IF g.local = <<>> \/ g.remote = <<>>
       THEN Thrown(<<"Head origin commit is not the same as the local origin commit">>)
       ELSE Returned(remoteUrlText(remoteUrl.fetch, g.remote[1]))

\* buildRemoteUrlFromGit: every command.error aborts, and so does a call of
\* git that rejects where the function has no catch
buildRemoteUrlFromGit(g) ==
  IF Len(g.remotes) = 0 THEN Thrown(<<"The remotes were not found">>)
  ELSE IF Len(g.remotes) > 1 /\ g.select = <<>> THEN Thrown(<<"Canceled">>)
  ELSE
    LET remoteUrl == IF Len(g.remotes) = 1 THEN g.remotes[1]
                     ELSE find(g.remotes, g.select[1])
    IN IF ~g.reachable
       THEN Thrown(<<"Remote url with name", remoteUrl.name, "not exists">>)
       ELSE IF g.dirty THEN Thrown(<<"There are unstaged or uncommitted changes">>)
       ELSE IF ~g.fetchOk THEN Thrown(<<"fetch failed">>)
       ELSE IF g.refs = ""
       THEN Thrown(<<"Remote branch", remoteUrl.name, "not exists">>)
       ELSE IF g.local = <<>> \/ g.remote = <<>> \/ g.local[1] # g.remote[1]
       THEN Thrown(<<"Head origin commit is not the same as the local origin commit">>)
       ELSE Returned(remoteUrlText(remoteUrl.fetch, g.remote[1]))

InitGit ==
  /\ PollerIdle
  /\ call \in [fn : {"buildRemoteUrlFromGit"}, git : GitAnswers]
  /\ outcome = <<>>

RunGit ==
  /\ call.fn = "buildRemoteUrlFromGit"
  /\ outcome = <<>>
  /\ outcome' = <<buildRemoteUrlFromGit(call.git)>>
  /\ UNCHANGED <<pollVars, call>>

SpecGit == InitGit /\ [][RunGit]_vars

\* ---------------------------------------------------------------- reading the trace
Count(op) == Cardinality({i \in DOMAIN events : events[i].op = op})

Contains(text, tok) == \E i \in DOMAIN text : text[i] = tok

\* positions of the getDeployPipeline calls in the trace
PollPositions ==
  SelectSeq([i \in 1..Len(events) |-> i], LAMBDA i : events[i].op = "poll")

\* the effects of the k-th tick: what follows its poll, up to the next poll
TickEv(k) ==
  SubSeq(events, PollPositions[k] + 1,
         IF k < Len(PollPositions) THEN PollPositions[k + 1] - 1 ELSE Len(events))

HasOp(evs, op) == \E i \in DOMAIN evs : evs[i].op = op

LastEvent == events[Len(events)]

IsStageError(q) == q.status \in StageStatuses /\ q.isErrorOccurred

IsUnrecognized(q) == q.status \notin RecognizedStatuses \cup {"NOT_FOUND"}

\* ---------------------------------------------------------------- claims
Rank(status) ==
  CASE status = "CREATED" -> 1
    [] status = "IMAGE_BUILDING" -> 2
    [] status = "IMAGE_PUSHING" -> 3
    [] status = "DEPLOYING" -> 4
    [] status = "OK" -> 5

\* every result so far is a snapshot of a recognized status without the error
\* flag, and the status never moved backwards
ForwardRun ==
  \A k \in DOMAIN polls :
    /\ polls[k].status \in RecognizedStatuses
    /\ ~polls[k].isErrorOccurred
    /\ k > 1 => Rank(polls[k - 1].status) <= Rank(polls[k].status)

\* the ticks whose snapshot changed the status (the first one included)
Transitions ==
  {k \in DOMAIN polls : k = 1 \/ polls[k].status # polls[k - 1].status}

\* C1: on a run of snapshots that only move forward through CREATED,
\* IMAGE_BUILDING, IMAGE_PUSHING, DEPLOYING, OK without the error flag, every
\* status transition is announced (spinner start) exactly once, no fatal error
\* is raised, and the poller returns only after it invoked the log streamer on
\* the OK snapshot.
C1_ForwardRunAnnouncedOnce ==
  ForwardRun =>
    /\ Count("start") = Cardinality(Transitions)
    /\ \A k \in DOMAIN polls : HasOp(TickEv(k), "start") <=> k \in Transitions
    /\ pc # "thrown"
    /\ Count("error") = 0
    /\ pc = "returned" =>
         /\ polls[Len(polls)].status = "OK"
         /\ HasOp(TickEv(Len(polls)), "stream")

\* C2: a snapshot with the error flag on CREATED, IMAGE_BUILDING,
\* IMAGE_PUSHING or DEPLOYING ends the run on that tick with a fatal error
\* whose message names the stage (building, building, publishing, deploying);
\* no poll, sleep or streamer invocation follows.
C2_StageWord(status) ==
  IF status \in {"CREATED", "IMAGE_BUILDING"} THEN "building"
  ELSE IF status = "IMAGE_PUSHING" THEN "publishing"
  ELSE "deploying"

C2_StageErrorIsFatal ==
  \A k \in DOMAIN polls :
    IsStageError(polls[k]) =>
      /\ k = Len(polls)
      /\ pc = "thrown"
      /\ LastEvent.op = "error"
      /\ \A w \in {"building", "publishing", "deploying"} :
           Contains(LastEvent.arg, w) <=> w = C2_StageWord(polls[k].status)
      /\ Count("error") = 1
      /\ Count("poll") = k
      /\ Count("sleep") = k - 1
      /\ Count("stream") = 0

C2_Witness ==
  /\ Len(polls) = 3
  /\ polls[3] = [status |-> "IMAGE_PUSHING", isErrorOccurred |-> TRUE]
  /\ pc = "thrown"

\* C3: a snapshot whose status is none of the five recognized ones ends the
\* run on that tick with the generic "unexpected error" fatal error; the tick
\* starts no spinner, and no streamer invocation, sleep or poll follows.
C3_UnrecognizedIsFatal ==
  \A k \in DOMAIN polls :
    IsUnrecognized(polls[k]) =>
      /\ k = Len(polls)
      /\ pc = "thrown"
      /\ LastEvent.op = "error"
      /\ Contains(LastEvent.arg, "An unexpected error occurred.")
      /\ \A w \in {"building", "publishing", "deploying"} : ~Contains(LastEvent.arg, w)
      /\ ~HasOp(TickEv(k), "start")
      /\ Count("error") = 1
      /\ Count("poll") = k
      /\ Count("sleep") = k - 1
      /\ Count("stream") = 0

C3_Witness ==
  /\ Len(polls) = 2
  /\ polls[1].status = "DEPLOYING"
  /\ IsUnrecognized(polls[2])
  /\ pc = "thrown"

\* C4: the log streamer is invoked at most once in a run: once in a run that
\* observed OK, on the tick that observed it, and never in a run that ended by
\* a fatal error or by pipeline-not-found.
C4_StreamerInvokedOnceOnOK ==
  /\ Count("stream") <= 1
  /\ Count("stream") = 1 <=> \E k \in DOMAIN polls : polls[k].status = "OK"
  /\ \A k \in DOMAIN polls :
       HasOp(TickEv(k), "stream") <=> polls[k].status = "OK"
  /\ pc = "thrown" => Count("stream") = 0
  /\ (polls # <<>> /\ polls[Len(polls)].status = "NOT_FOUND") => Count("stream") = 0

C4_Witness ==
  /\ pc = "returned"
  /\ Len(polls) = 3
  /\ polls[3].status = "OK"
  /\ Count("stream") = 1

\* C5: when getDeployPipeline reports no pipeline, on the first tick or a
\* later one, the run ends successfully and that tick does nothing: no fatal
\* error, no spinner start or stop, no log or debug output, no streamer
\* invocation, no sleep and no further poll.
C5_NotFoundEndsSilently ==
  \A k \in DOMAIN polls :
    polls[k].status = "NOT_FOUND" =>
      /\ k = Len(polls)
      /\ pc = "returned"
      /\ TickEv(k) = <<>>
      /\ LastEvent.op = "poll"
      /\ Count("poll") = k
      /\ Count("sleep") = k - 1
      /\ Count("error") = 0
      /\ Count("stream") = 0
      /\ lastStatus = (IF k = 1 THEN "undefined" ELSE polls[k - 1].status)

C5_Witness ==
  /\ Len(polls) = 2
  /\ polls[1].status = "CREATED"
  /\ polls[2].status = "NOT_FOUND"
  /\ pc = "returned"

\* C6: a tick whose snapshot carries the status of the previous tick performs
\* no spinner start; a spinner start happens only on a tick that changes the
\* status to a recognized one.
C6_NoSpinnerStartOnSameStatus ==
  \A k \in DOMAIN polls :
    HasOp(TickEv(k), "start") =>
      k \in Transitions /\ polls[k].status \in RecognizedStatuses

\* the text the debug dump is made of: banner, names, pipeline id, log lines
\* and comment
SnapshotText ==
  (LogLines \cup {c[1] : c \in Comments \ {<<>>}}) \ {""}

DebugText ==
  {"Please report to t.me/HydraDevs", args.squidName, args.versionName}
    \cup PipelineIds \cup SnapshotText

\* C7 as stated: with verbose=false no debug dump text (banner, squid name,
\* version name, pipeline id, log lines, comment) is emitted on any tick,
\* neither through command.log nor in a fatal error message.
C7_NoDebugTextWhenQuiet ==
  ~args.verbose =>
    \A i \in DOMAIN events :
      events[i].op \in {"log", "error"} =>
        \A t \in DebugText : ~Contains(events[i].arg, t)

\* C7 as amended: with verbose=false printDebug emits nothing, so no log line
\* or comment of a snapshot reaches command.log on any tick; the banner, squid
\* name, version name and pipeline id are still emitted, in the message of a
\* stage error.
C7_QuietDropsLogsKeepsTrace ==
  ~args.verbose =>
    /\ \A i \in DOMAIN events :
         events[i].op \in {"log", "error"} =>
           \A t \in SnapshotText : ~Contains(events[i].arg, t)
    /\ \A i \in DOMAIN events :
         events[i].op = "log" => ~Contains(events[i].arg, "<dim>")
    /\ (polls # <<>> /\ IsStageError(polls[Len(polls)])) =>
         \A t \in {"Please report to t.me/HydraDevs", args.squidName,
                   args.versionName, pipeline[1].id} :
           Contains(LastEvent.arg, t)

C7_Witness ==
  /\ ~args.verbose
  /\ pc = "thrown"
  /\ polls # <<>> /\ IsStageError(polls[Len(polls)])
  /\ pipeline[1].logs = <<"l1">>
  /\ pipeline[1].comment = <<"note">>

\* the entries the dump of snapshot p must show: its non-empty log lines in
\* order, then its comment when there is one
ExpectedEntries(p) ==
  SelectSeq(p.logs, LAMBDA l : l # "")
    \o (IF p.comment # <<>> /\ p.comment[1] # "" THEN <<p.comment[1]>> ELSE <<>>)

\* text is exactly the entries, one per line, inside the dim markers
IsDumpOf(text, entries) ==
  /\ Len(text) = 2 + (IF entries = <<>> THEN 0 ELSE 2 * Len(entries) - 1)
  /\ text[1] = "<dim>"
  /\ text[Len(text)] = "</dim>"
  /\ \A j \in 1..Len(entries) : text[2 * j] = entries[j]
  /\ \A j \in 1..(Len(entries) - 1) : text[2 * j + 1] = "\n"

\* the dumps printDebug wrote in a run of the callback
Dumps(evs) ==
  SelectSeq(evs, LAMBDA e : e.op = "log" /\ e.arg # <<>> /\ e.arg[1] = "<dim>")

\* what a run of the callback wrote through command.log and command.error
Emitted(evs) == SelectSeq(evs, LAMBDA e : e.op \in {"log", "error"})

\* the last tick processed a snapshot and ended the loop (stage error,
\* unrecognized status or OK)
EndedOnSnapshot == pipeline # <<>>

C9_Expected(q) ==
  IF q.status = "OK" THEN "success-and-stream"
  ELSE IF q.status \in StageStatuses /\ ~q.isErrorOccurred THEN "continue-polling"
  ELSE "fatal-error"

\* C9: processing a snapshot has exactly one of the outcomes continue-polling
\* (the loop sleeps), fatal-error (command.error, the call fails) and
\* success-and-stream (the streamer is invoked): a recognized non-OK status
\* without the error flag continues, one with the flag or an unrecognized
\* status is fatal, OK streams.
C9_ExactlyOneOutcome ==
  [][(pc = "fetching" /\ polls' # polls /\ polls'[Len(polls')].status # "NOT_FOUND") =>
       LET new == SubSeq(events', Len(events) + 1, Len(events'))
           want == C9_Expected(polls'[Len(polls')])
       IN /\ (HasOp(new, "sleep") /\ pc' = "sleeping") <=> want = "continue-polling"
          /\ (HasOp(new, "error") /\ pc' = "thrown") <=> want = "fatal-error"
          /\ (HasOp(new, "stream") /\ pc' = "streaming") <=> want = "success-and-stream"
          /\ HasOp(new, "sleep") <=> pc' = "sleeping"
          /\ HasOp(new, "error") <=> pc' = "thrown"
          /\ HasOp(new, "stream") <=> pc' = "streaming"
          /\ pc' \in {"sleeping", "thrown", "streaming"}]_vars

C9_Witness ==
  /\ Len(polls) = 3
  /\ polls[2] = [status |-> "DEPLOYING", isErrorOccurred |-> FALSE]
  /\ polls[3] = [status |-> "DEPLOYING", isErrorOccurred |-> TRUE]
  /\ pc = "thrown"

\* C10 as stated: every fatal error raised while a snapshot is available (the
\* four stage errors and the unrecognized-status error) carries its message
\* and the debug dump (squid name, version name, pipeline id), halts the loop
\* at once and reaches the caller.
C10_EveryFatalCarriesDump ==
  \A i \in DOMAIN events :
    events[i].op = "error" =>
      /\ i = Len(events)
      /\ pc = "thrown"
      /\ \/ Contains(events[i].arg, "An error occurred while")
         \/ Contains(events[i].arg, "An unexpected error occurred.")
      /\ \A t \in {args.squidName, args.versionName, pipeline[1].id} :
           Contains(events[i].arg, t)

\* C10 as amended: every fatal error halts the loop at once and reaches the
\* caller uncaught; a stage error carries its message and the trace (squid
\* name, version name, pipeline id), the unrecognized-status error carries its
\* generic message only.
C10_FatalHaltsStageCarriesTrace ==
  \A i \in DOMAIN events :
    events[i].op = "error" =>
      /\ i = Len(events)
      /\ pc = "thrown"
      /\ Count("poll") = Len(polls)
      /\ IF IsStageError(polls[Len(polls)])
         THEN /\ Contains(events[i].arg, "An error occurred while")
              /\ \A t \in {args.squidName, args.versionName, pipeline[1].id} :
                   Contains(events[i].arg, t)
         ELSE /\ IsUnrecognized(polls[Len(polls)])
              /\ events[i].arg = UnexpectedErrorText

C10_Witness ==
  /\ pc = "thrown"
  /\ Len(polls) = 2
  /\ IsUnrecognized(polls[2])
  /\ LastEvent.op = "error"

\* C11: parseNameAndVersion raises the format error for every input whose
\* number of "@" is not one, before it returns a name or a version (so no poll
\* is made for it); an input it accepts yields the text before the "@" as
\* squidName and the text after it as versionName.
C11_AtCountValidated ==
  outcome # <<>> =>
    LET str == call.arg
        ats == {i \in DOMAIN str : str[i] = "@"}
    IN /\ Cardinality(ats) # 1 =>
            /\ outcome[1] = Thrown(FormatErrorText)
            /\ events = <<>>
       /\ outcome[1].kind = "returned" =>
            \E i \in ats :
              /\ ats = {i}
              /\ outcome[1].value = <<SubSeq(str, 1, i - 1), SubSeq(str, i + 1, Len(str))>>

C11_Witness ==
  /\ call.fn = "parseNameAndVersion"
  /\ call.arg = <<"a", "@", "b", "@", "a">>
  /\ outcome # <<>>
  /\ outcome[1].kind = "thrown"

\* the texts parseEnvs reads, in the order it reads them: the inline flags,
\* then the env file when one is named and exists
C12_Sources ==
  (IF call.envFlags = <<>> THEN <<>> ELSE call.envFlags[1])
    \o (IF call.envFilePath # <<>> /\ call.envFilePath[1].exists
        THEN <<call.envFilePath[1].content>> ELSE <<>>)

C12_Assigns(text, k) == \E i \in DOMAIN text : Len(text[i]) = 2 /\ text[i][1] = k

C12_AssignsNothing(text) == \A i \in DOMAIN text : Len(text[i]) # 2

\* the value text gives k: the one of its last line that assigns k
C12_ValueIn(text, k) ==
  LET i == CHOOSE j \in DOMAIN text :
             /\ Len(text[j]) = 2 /\ text[j][1] = k
             /\ \A m \in (j + 1)..Len(text) : ~(Len(text[m]) = 2 /\ text[m][1] = k)
  IN text[i][2]

\* C12: parseEnvs throws, and returns no mapping, exactly when an inline flag
\* parses to zero entries (a missing env file is no error and adds nothing);
\* otherwise the mapping it returns has, for every key, the value of the last
\* source that defines it, the inline flags in order and then the env file.
C12_LastSourceWins ==
  outcome # <<>> =>
    LET flags == IF call.envFlags = <<>> THEN <<>> ELSE call.envFlags[1]
        src == C12_Sources
    IN /\ outcome[1].kind = "thrown" <=> \E i \in DOMAIN flags : C12_AssignsNothing(flags[i])
       /\ outcome[1].kind = "returned" =>
            /\ DOMAIN outcome[1].value =
                 {k \in {"A", "B"} : \E i \in DOMAIN src : C12_Assigns(src[i], k)}
            /\ \A k \in DOMAIN outcome[1].value :
                 \E i \in DOMAIN src :
                   /\ C12_Assigns(src[i], k)
                   /\ \A m \in (i + 1)..Len(src) : ~C12_Assigns(src[m], k)
                   /\ outcome[1].value[k] = C12_ValueIn(src[i], k)

C12_Witness ==
  /\ call.fn = "parseEnvs"
  /\ call.envFlags = << << <<<<"A", "1">>, <<"B", "2">>>>, <<<<"B", "1">>>> >> >>
  /\ call.envFilePath = <<[exists |-> TRUE, content |-> <<<<"A", "2">>>>]>>
  /\ outcome # <<>>
  /\ outcome[1].kind = "returned"
  /\ outcome[1].value["A"] = "2"
  /\ outcome[1].value["B"] = "1"

\* every check of buildRemoteUrlFromGit passes on the answers g
C13_ChecksPass(g) ==
  /\ Len(g.remotes) >= 1
  /\ Len(g.remotes) > 1 => g.select # <<>>
  /\ g.reachable
  /\ ~g.dirty
  /\ g.refs # ""
  /\ g.local # <<>> /\ g.remote # <<>> /\ g.local = g.remote

\* C13: buildRemoteUrlFromGit returns a string only when one remote was
\* resolved (the only one, or the selected one), it is reachable, the working
\* tree is clean, the remote branch exists and the local and remote heads have
\* the same hash; otherwise it aborts and returns nothing.  The string is the
\* fetch URL of that remote, with ".git" appended only when it does not end
\* in it, then "#" and the hash.
C13_UrlOnlyWhenChecksPass ==
  outcome # <<>> =>
    LET g == call.git
        out == outcome[1]
    IN /\ out.kind = "returned" => C13_ChecksPass(g)
       /\ ~C13_ChecksPass(g) => out.kind = "thrown"
       /\ out.kind = "returned" =>
            \E i \in DOMAIN g.remotes :
              LET url == g.remotes[i].fetch
                  n == Len(out.value)
              IN /\ Len(g.remotes) > 1 => g.remotes[i].name = g.select[1]
                 /\ out.value[n] = g.local[1]
                 /\ out.value[n - 1] = "#"
                 /\ out.value[n - 2] = ".git"
                 /\ SubSeq(out.value, 1, n - 2) =
                      (IF url[Len(url)] = ".git" THEN url ELSE url \o <<".git">>)

C13_Witness ==
  /\ call.fn = "buildRemoteUrlFromGit"
  /\ Len(call.git.remotes) = 2
  /\ call.git.select = <<"fork">>
  /\ call.git.remotes[2] = [name |-> "fork", fetch |-> <<"https://host/repo", ".git">>]
  /\ call.git.remotes[1].name = "origin"
  /\ outcome = <<Returned(<<"https://host/repo", ".git", "#", "h1">>)>>

\* polls issued and not yet answered
Outstanding == Count("poll") - Len(polls)

\* C14: polls are strictly sequential: at most one is outstanding; between
\* two consecutive polls the earlier tick ran to its end and exactly one
\* sleep of 3000 ms, its last effect, elapsed; no sleep follows the tick that
\* ends the loop.
C14_PollsSequential ==
  /\ Outstanding \in {0, 1}
  /\ Outstanding = 1 <=> pc = "fetching"
  /\ \A k \in 1..(Len(PollPositions) - 1) :
       LET te == TickEv(k) IN
         /\ k <= Len(polls)
         /\ Cardinality({i \in DOMAIN te : te[i].op = "sleep"}) = 1
         /\ te[Len(te)] = Ev("sleep", <<"3000">>)
  /\ pc \in {"returned", "thrown", "streaming"} =>
       /\ ~HasOp(TickEv(Len(polls)), "sleep")
       /\ Count("sleep") = Count("poll") - 1

C14_Witness ==
  /\ Count("poll") = 3
  /\ Count("sleep") = 2
  /\ pc = "thrown"

\* seq without its consecutive repeats
Dedup(seq) ==
  LET idx == SelectSeq([i \in 1..Len(seq) |-> i],
                       LAMBDA i : i = 1 \/ seq[i] # seq[i - 1])
  IN [j \in 1..Len(idx) |-> seq[idx[j]]]

\* the announcement the claim expects for a recognized status
C15_Announcement(status) ==
  CASE status = "CREATED" -> "Preparing your squid"
    [] status = "IMAGE_BUILDING" -> "Building your squid"
    [] status = "IMAGE_PUSHING" -> "Publishing your squid"
    [] status = "DEPLOYING" -> "Deploying your squid"
    [] status = "OK" -> "Streaming logs from the squid"

\* C15: for every sequence of snapshots, backwards moves and skipped stages
\* included, the announcements made (spinner starts), without consecutive
\* repeats, are the recognized statuses reported, without consecutive
\* repeats, in the same order.
C15_AnnouncedInOrderReported ==
  LET starts == SelectSeq(events, LAMBDA e : e.op = "start")
      said == [i \in 1..Len(starts) |-> starts[i].arg[1]]
      seen == SelectSeq(polls, LAMBDA q : q.status \in RecognizedStatuses)
      told == [i \in 1..Len(seen) |-> C15_Announcement(seen[i].status)]
  IN Dedup(said) = Dedup(told)

C15_Witness ==
  /\ Len(polls) = 3
  /\ polls[1].status = "DEPLOYING"
  /\ polls[2].status = "CREATED"
  /\ polls[3].status = "CREATED"

\* C16: a tick that fetched a snapshot stops the spinner, as its first
\* effect and whatever branch follows, exactly when the status differs from
\* the last observed one; afterwards lastStatus is the status of the
\* snapshot.  lastStatus starts unknown, so the first snapshot is a
\* transition.
C16_StopIffStatusChanged ==
  /\ polls = <<>> => lastStatus = "undefined"
  /\ \A k \in DOMAIN polls :
       polls[k].status # "NOT_FOUND" =>
         LET te == TickEv(k) IN
           /\ HasOp(te, "stop") <=> k \in Transitions
           /\ Cardinality({i \in DOMAIN te : te[i].op = "stop"}) <= 1
           /\ HasOp(te, "stop") => te[1].op = "stop"
           /\ k = 1 => te[1].op = "stop"
           /\ k = Len(polls) => lastStatus = polls[k].status

C16_Witness ==
  /\ Len(polls) = 2
  /\ polls[1] = [status |-> "IMAGE_BUILDING", isErrorOccurred |-> FALSE]
  /\ polls[2] = [status |-> "IMAGE_BUILDING", isErrorOccurred |-> TRUE]
  /\ pc = "thrown"

\* a run whose last tick observed OK
ObservedOK == polls # <<>> /\ polls[Len(polls)].status = "OK"

\* the effects of the tick that observed OK, in order: spinner stop, the dump
\* when verbose, the announcement of the URL, the start of the "Streaming
\* logs" spinner, the call of the streamer, then only lines of the stream
C17_OKTickInOrder ==
  ObservedOK =>
    LET te == TickEv(Len(polls))
        d == IF args.verbose THEN 1 ELSE 0
    IN /\ pc \in {"streaming", "returned"}
       /\ Len(te) >= 4 + d
       /\ te[1].op = "stop"
       /\ args.verbose => (te[2].op = "log" /\ te[2].arg[1] = "<dim>")
       /\ te[2 + d].op = "log" /\ Contains(te[2 + d].arg, args.deploymentUrl)
       /\ te[3 + d] = Ev("start", <<"Streaming logs from the squid">>)
       /\ te[4 + d].op = "stream"
       /\ \A i \in (5 + d)..Len(te) : te[i].op = "log" /\ te[i].arg[1] \in StreamLines
       /\ Count("poll") = Len(polls)
       /\ Count("sleep") = Len(polls) - 1

\* C17: on the tick that observes OK the poller dumps (only when verbose),
\* announces the URL, starts the "Streaming logs" spinner and invokes the
\* streamer, in this order; it stays suspended until the promise of the
\* streamer resolves, returns only then, and never sleeps or polls again.
C17_OKThenStreamThenReturn ==
  /\ []C17_OKTickInOrder
  /\ [][(ObservedOK' /\ pc' = "returned") => (pc = "streaming" /\ events' = events)]_vars
  /\ [][pc = "streaming" => pc' \in {"streaming", "returned"}]_vars

C17_Witness ==
  /\ args.verbose
  /\ ObservedOK
  /\ Len(polls) = 2
  /\ Len(delivered) = 1
  /\ pc = "returned"

C19_FlagIgnoredOnOK ==
  (ObservedOK /\ polls[Len(polls)].isErrorOccurred) =>
    LET k == Len(polls)
        prev == IF k = 1 THEN "undefined" ELSE polls[k - 1].status
        twin == fn(args, prev, <<[pipeline[1] EXCEPT !.isErrorOccurred = FALSE]>>)
        te == TickEv(k)
    IN /\ pc \in {"streaming", "returned"}
       /\ Count("error") = 0
       /\ Count("stream") = 1
       /\ \E i \in DOMAIN te : te[i].op = "log" /\ Contains(te[i].arg, args.deploymentUrl)
       /\ twin.ret = "await"
       /\ SubSeq(te, 1, Len(twin.evs)) = twin.evs

C19_Witness ==
  /\ ObservedOK
  /\ polls[Len(polls)].isErrorOccurred
  /\ Len(polls) = 2
  /\ pc = "returned"

\* the latest poll gave a terminal observation: no pipeline, an unrecognized
\* status, a stage status with the error flag, or OK
TerminalObserved ==
  /\ polls # <<>>
  /\ LET q == polls[Len(polls)]
     IN q.status \in {"NOT_FOUND", "OK"} \/ IsUnrecognized(q) \/ IsStageError(q)

Done == pc \in {"returned", "thrown"}

\* C20: under fairness of the loop, with a remote that answers and a stream
\* that ends, the poller returns or fails once a poll gave a terminal
\* observation, and only then; as long as every poll gives a recognized
\* non-OK status without the error flag it polls again and again, without
\* bound.
C20_EndsIffTerminalObserved ==
  /\ TerminalObserved ~> Done
  /\ [](Done => TerminalObserved)
  /\ []~TerminalObserved => []<>(pc = "fetching")
  /\ [](pc = "sleeping" => <>(pc = "fetching"))

C20_Witness ==
  /\ pc = "returned"
  /\ polls = <<[status |-> "OK", isErrorOccurred |-> FALSE]>>
  /\ delivered # <<>>

====
